---------------------------- MODULE Spec2Model ----------------------------
(***************************************************************************)
(* Document ingestion and retrieval of rag_agent.                          *)
(*                                                                         *)
(* src/rag_agent/ingestion.py defines the class DocumentIngestion twice.   *)
(* Python binds the name to the second definition (lines 509-798), which   *)
(* is what ui.py and the tests use: it keeps no ledger and derives the     *)
(* document inventory from the chunks in the vector store.  The first      *)
(* definition (lines 144-391) keeps a hash-keyed ledger (self.metadata,    *)
(* document_metadata.json).  Spec models the second definition together    *)
(* with DocumentRetrieval; the first definition is modelled further down   *)
(* under its own specification.                                            *)
(*                                                                         *)
(* Scores and distances are fixed-point hundredths (One = 1.0).  A text is *)
(* identified by a number; text 0 is blank and text t > 0 is split by the  *)
(* text splitter into t chunks.  md5 is modelled as injective on the       *)
(* bounded set of texts.                                                   *)
(***************************************************************************)
EXTENDS Integers, Sequences, FiniteSets, TLC

\* ------------------------------------------------------------------ bounds
MaxText == 2
MaxIndex == 3
MaxK == 2
MaxBatch == 2
MaxTime == 7200

\* the latest reading of the clock of the session migration
MaxNow == 2

\* the latest reading, in hours, of the clock of the session manager
MaxHour == 3

\* the most messages a chat session comes to hold
MaxMessages == 4

\* the most calls of a cached function
MaxCalls == 3

\* the latest reading of the clock of the cache
MaxCacheTime == 3602

\* ------------------------------------------------------- program constants
One == 100
CharsPerToken == 4
ContextK == 10
ChatCount == 60
UploadCount == 10
ApiCount == 100
Window == 3600

\* ttl of cache_result, in seconds
CacheTtl == 3600

Names == {"a.txt", "notes.md"}
Texts == 0..MaxText
Kinds == {"ok", "too_large", "unsupported", "unreadable"}
Distances == {0, 130}
Thresholds == {0, 50}
TokenBudgets == {0, 12, 40}

Sentinel == "No relevant documents found in the knowledge base."

\* ------------------------------------------------------------------ helpers
Max(a, b) == IF a >= b THEN a ELSE b

Min(a, b) == IF a <= b THEN a ELSE b

RECURSIVE Digits(_)
Digits(n) == IF n < 10 THEN 1 ELSE 1 + Digits(n \div 10)

RECURSIVE SumSeq(_)
SumSeq(s) == IF s = <<>> THEN 0 ELSE Head(s) + SumSeq(Tail(s))

\* hashlib.md5(text.encode()).hexdigest()[:8]: the digest of a text is named
\* by the text it is the digest of (no collision among the bounded texts)
FileHash(text) == text

\* the number of chunks self.text_splitter.split_text(text) returns
NumChunks(text) == text

\* len(chunk) of chunk i of a text (at most chunk_size = 500)
ChunkLen(text, i) == IF i = 0 THEN 5 ELSE 5 + 48 * text

\* chunk_text: one Document per chunk, with its metadata
ChunkText(text, file_name) ==
    [i \in 1..NumChunks(text) |->
        [file_name |-> file_name,
         chunk_id |-> i - 1,
         total_chunks |-> NumChunks(text),
         file_hash |-> FileHash(text),
         content_len |-> ChunkLen(text, i - 1)]]

\* ------------------------------------------------------------------- state
VARIABLES
    index,           \* the Chroma collection: the sequence of stored chunks
    ingestReady,     \* DocumentIngestion.vector_store is not None
    retrievalReady,  \* DocumentRetrieval.is_available()
    known,           \* history: hashes ingest_document stored, not removed since
    removed,         \* history: names deleted and not ingested again since
    live,            \* history: per name, the chunks ingested and not deleted
    cleared,         \* history: hashes cleared away, nothing ingested since
    last,            \* the last call: its inputs and what it returned
    metadata,        \* first definition: self.metadata, the ledger in memory
    metaFile,        \* first definition: document_metadata.json on disk
    threads,         \* first definition: where each caller of ingest_document is
    rlNow,           \* RateLimiter: time.time()
    rlRequests,      \* RateLimiter.requests: per key, the recorded request times
    rlAllowed,       \* history: per key, the allowed requests younger than the window
    rlLast,          \* RateLimiter: the last is_allowed call and what it returned
    exLast,          \* code_execution: the last validate_code or execute_code call
    migNow,          \* ui: the clock datetime.now() reads
    migLast,         \* ui: the last migrate_session_data call and what it returned
    disturbed,       \* first definition: a step failed, calls overlapped or the
                     \* process stopped (history)
    smNow,           \* SessionManager: the clock datetime.now() reads, in hours
    smSessions,      \* SessionManager: self.sessions
    smActive,        \* SessionManager: the keys of self.active_sessions
    smDead,          \* SessionManager: the sessions ended or expired so far (history)
    smLast,          \* SessionManager: the last call and what it returned
    current_model,   \* RAGAgent: whether a model is selected
    chat_sessions,   \* RAGAgent: the messages of each chat session
    current_session_id,  \* RAGAgent: the current session, "" for None
    chatLast,        \* RAGAgent: the last call and what it returned
    cacheNow,        \* performance: the clock time.time() reads
    cacheStore,      \* performance: SimpleCache.cache
    cacheThreads,    \* performance: each thread's place in the cache_result wrapper
    cacheRuns,       \* performance: the completed executions of the wrapped
                     \* function (history)
    cacheCalls       \* performance: the calls of the wrapper made so far (history)

\* the state of document ingestion and retrieval
coreVars == <<index, ingestReady, retrievalReady, known, removed, live, cleared,
              last, metadata, metaFile, threads>>

rateVars == <<rlNow, rlRequests, rlAllowed, rlLast>>

codeVars == <<exLast>>

migrateVars == <<migNow, migLast>>

\* the state of the other components
sessionVars == <<smNow, smSessions, smActive, smDead, smLast>>

chatVars == <<current_model, chat_sessions, current_session_id, chatLast>>

cacheVars == <<cacheNow, cacheStore, cacheThreads, cacheRuns, cacheCalls>>

auxVars == <<rateVars, codeVars, migrateVars, disturbed, sessionVars, chatVars,
             cacheVars>>

\* everything but the state of one component
exceptRate ==
    <<coreVars, codeVars, migrateVars, disturbed, sessionVars, chatVars, cacheVars>>

exceptCode ==
    <<coreVars, rateVars, migrateVars, disturbed, sessionVars, chatVars, cacheVars>>

exceptMigrate ==
    <<coreVars, rateVars, codeVars, disturbed, sessionVars, chatVars, cacheVars>>

exceptSession ==
    <<coreVars, rateVars, codeVars, migrateVars, disturbed, chatVars, cacheVars>>

exceptChat ==
    <<coreVars, rateVars, codeVars, migrateVars, disturbed, sessionVars, cacheVars>>

exceptCache ==
    <<coreVars, rateVars, codeVars, migrateVars, disturbed, sessionVars, chatVars>>

otherVars == <<rateVars, codeVars, migrateVars, sessionVars, chatVars, cacheVars>>

vars == <<coreVars, auxVars>>

\* no is_allowed call yet
NoRateCall == [action |-> "", identifier |-> "", allowed |-> FALSE, before |-> 0]

\* RateLimiter.__init__: self.requests = {}
RateInitial ==
    /\ rlNow = 0
    /\ rlRequests = [k \in {} |-> <<>>]
    /\ rlAllowed = [k \in {} |-> <<>>]
    /\ rlLast = NoRateCall

\* no code was given to the validator or the executor yet
NoCodeCall ==
    [op |-> "none", code |-> <<>>, is_safe |-> FALSE, warnings |-> <<>>,
     executed |-> FALSE, success |-> FALSE, error |-> "", output |-> <<>>]

\* migrate_session_data was not called yet
NoMigration == [called |-> FALSE, again |-> FALSE,
                sessions |-> [k \in {} |-> 0], migrated |-> [k \in {} |-> 0]]

\* a session that is not there
NoSession == [is_active |-> FALSE, expires_at |-> 0, data |-> [k \in {} |-> 0]]

\* no SessionManager method was called yet
NoSessionCall ==
    [op |-> "none", session_id |-> "", result |-> "None", wasDead |-> FALSE,
     before |-> NoSession]

\* no RAGAgent method was called yet
NoChatCall ==
    [op |-> "none", user_input |-> "", outcome |-> "", returned |-> "",
     before |-> [sid \in {} |-> <<>>]]

Threads == {1, 2}

\* the cache keys key_func gives the calls
CacheKeys == {"k1", "k2"}

\* a thread outside the wrapper: what its last call returned, and the value
\* of the earliest execution for its key within the TTL at that time
WrapperIdle == [pc |-> "idle", key |-> "", result |-> "none", owed |-> "none"]

\* the other components as constructed
AuxInit ==
    /\ RateInitial
    /\ exLast = NoCodeCall
    /\ migNow = 1
    /\ migLast = NoMigration
    /\ disturbed = FALSE
    /\ smNow = 0
    /\ smSessions = [sid \in {} |-> 0]
    /\ smActive = {}
    /\ smDead = {}
    /\ smLast = NoSessionCall
    /\ current_model = FALSE
    /\ chat_sessions = [sid \in {} |-> <<>>]
    /\ current_session_id = ""
    /\ chatLast = NoChatCall
    /\ cacheNow = 0
    /\ cacheStore = [k \in {} |-> 0]
    /\ cacheThreads = [t \in Threads |-> WrapperIdle]
    /\ cacheRuns = [k \in CacheKeys |-> <<>>]
    /\ cacheCalls = 0

\* the state only the first definition of DocumentIngestion has
firstVars == <<metadata, metaFile, threads>>

\* a ledger is a function from the hashes it records to their records
EmptyLedger == [h \in {} |-> [document_name |-> "", chunk_count |-> 0]]

ThreadIdle(result, name, text) ==
    [pc |-> "idle", result |-> result, name |-> name, text |-> text,
     hadChunks |-> 0, hadRecord |-> FALSE]

\* a call that has returned
ThreadReturned(me, result) == ThreadIdle(result, me.name, me.text)

\* a returned context string: `fixed` when no chunk is included, else the
\* heading, the included chunks and the footer
NoContext == [fixed |-> "", parts |-> <<>>]

\* get_statistics before it has counted anything
NoStats == [total_chunks |-> 0, total_files |-> 0, files |-> {}]

Call(op, status) ==
    [op |-> op, status |-> status, name |-> "", text |-> 0, kind |-> "",
     failed |-> FALSE, wasKnown |-> FALSE,
     wasCleared |-> FALSE, calls |-> {}, before |-> <<>>,
     results |-> <<>>, context |-> NoContext, max_tokens |-> 0,
     size |-> 0, pending |-> 0, batch |-> <<>>,
     hits |-> <<>>, score_threshold |-> 0, limit |-> 0,
     stats |-> NoStats, documents |-> {}]

\* between two calls: the caller has taken the previous result
Idle == Call("idle", "none")

Init ==
    /\ index = <<>>
    /\ ingestReady \in BOOLEAN
    /\ retrievalReady \in BOOLEAN
    /\ known = {}
    /\ removed = {}
    /\ live = [n \in Names |-> 0]
    /\ cleared = {}
    /\ last = Idle
    /\ metadata = EmptyLedger
    /\ metaFile = EmptyLedger
    /\ threads = [t \in Threads |-> ThreadIdle("none", "", 0)]
    /\ AuxInit

\* ------------------------------------------------- DocumentIngestion (2nd)
\* ingest_document that parses the file before it looks at its size
ParseBeforeSizeCheck(kind, text, addFails) ==
    IF ~ingestReady THEN [status |-> "raised", calls |-> {}, add |-> FALSE]
    ELSE IF kind \in {"too_large", "unreadable"}
        THEN [status |-> "error", calls |-> {"parser"}, add |-> FALSE]
    ELSE IF kind = "unsupported" THEN [status |-> "error", calls |-> {}, add |-> FALSE]
    ELSE IF NumChunks(text) = 0
        THEN [status |-> "error", calls |-> {"parser"}, add |-> FALSE]
    ELSE IF addFails
        THEN [status |-> "error", calls |-> {"parser", "splitter", "index"},
              add |-> FALSE]
    ELSE [status |-> "success", calls |-> {"parser", "splitter", "index"},
          add |-> TRUE]

\* ingest_document(file_path, file_name): the status it returns, the
\* collaborators it invokes and the chunks it adds.
IngestOutcome(kind, text, addFails) ==
    IF ~ingestReady THEN [status |-> "raised", calls |-> {}, add |-> FALSE]
    ELSE IF kind = "too_large" THEN [status |-> "error", calls |-> {}, add |-> FALSE]
    ELSE IF kind = "unsupported" THEN [status |-> "error", calls |-> {}, add |-> FALSE]
    ELSE IF kind = "unreadable"
        THEN [status |-> "error", calls |-> {"parser"}, add |-> FALSE]
    ELSE IF NumChunks(text) = 0
        THEN [status |-> "error", calls |-> {"parser"}, add |-> FALSE]
    ELSE IF addFails
        THEN [status |-> "error", calls |-> {"parser", "splitter", "index"},
              add |-> FALSE]
    ELSE [status |-> "success", calls |-> {"parser", "splitter", "index"},
          add |-> TRUE]

IngestDocument ==
    /\ last = Idle
    /\ \E name \in Names, text \in Texts, kind \in Kinds, addFails \in BOOLEAN :
        LET out == IngestOutcome(kind, text, addFails)
            docs == ChunkText(text, name)
        IN  /\ out.add => Len(index) + Len(docs) <= MaxIndex
            /\ index' = IF out.add THEN index \o docs ELSE index
            /\ known' = IF out.add THEN known \cup {FileHash(text)} ELSE known
            /\ removed' = IF out.add THEN removed \ {name} ELSE removed
            /\ live' = IF out.add THEN [live EXCEPT ![name] = @ + Len(docs)]
                       ELSE live
            /\ cleared' = IF out.add THEN {} ELSE cleared
            /\ last' = [Call("ingest", out.status) EXCEPT
                            !.name = name, !.text = text, !.kind = kind,
                            !.failed = addFails,
                            !.wasKnown = FileHash(text) \in known,
                            !.wasCleared = FileHash(text) \in cleared,
                            !.calls = out.calls,
                            !.before = index]
            /\ UNCHANGED <<ingestReady, retrievalReady, firstVars>>
    /\ UNCHANGED auxVars

\* ingest_text(text, title).  add_documents on an empty list either raises
\* inside the try (status error) or returns no ids (status success),
\* depending on the Chroma build.
IngestTextOutcome(text, addFails) ==
    IF ~ingestReady THEN [status |-> "raised", calls |-> {}, add |-> FALSE]
    ELSE IF addFails
        THEN [status |-> "error", calls |-> {"splitter", "index"}, add |-> FALSE]
    ELSE [status |-> "success", calls |-> {"splitter", "index"}, add |-> TRUE]

IngestText ==
    /\ last = Idle
    /\ \E title \in Names, text \in Texts, addFails \in BOOLEAN :
        LET out == IngestTextOutcome(text, addFails)
            docs == ChunkText(text, title)
            grows == out.add /\ docs # <<>>
        IN  /\ grows => Len(index) + Len(docs) <= MaxIndex
            /\ index' = IF out.add THEN index \o docs ELSE index
            /\ removed' = IF grows THEN removed \ {title} ELSE removed
            /\ live' = IF grows THEN [live EXCEPT ![title] = @ + Len(docs)]
                       ELSE live
            /\ last' = [Call("ingest_text", out.status) EXCEPT
                            !.name = title, !.text = text,
                            !.failed = addFails,
                            !.calls = out.calls,
                            !.before = index]
            /\ cleared' = IF grows THEN {} ELSE cleared
            /\ UNCHANGED <<ingestReady, retrievalReady, known, firstVars>>
    /\ UNCHANGED auxVars

\* delete_document that stops after the first matching chunk of the file
DeleteFirstChunkOnly(store, file_name) ==
    SelectSeq(store, LAMBDA e : ~(e.file_name = file_name /\ e.chunk_id = 0))

\* the chunks delete_document(file_name) leaves in the store
DeleteByName(store, file_name) ==
    SelectSeq(store, LAMBDA e : e.file_name # file_name)

\* delete_document(file_name) -> bool
DeleteDocument ==
    /\ last = Idle
    /\ \E file_name \in Names, storeFails \in BOOLEAN :
        LET kept == DeleteByName(index, file_name)
            ok == ingestReady /\ ~storeFails /\ kept # index
        IN  /\ index' = IF ok THEN kept ELSE index
            /\ known' = IF ok
                        THEN known \ {index[i].file_hash : i \in
                                         {j \in 1..Len(index) :
                                            index[j].file_name = file_name}}
                        ELSE known
            /\ removed' = IF ok THEN removed \cup {file_name} ELSE removed
            /\ live' = IF ok THEN [live EXCEPT ![file_name] = 0] ELSE live
            /\ UNCHANGED cleared
            /\ last' = [Call("delete", IF ok THEN "true" ELSE "false") EXCEPT
                            !.name = file_name, !.failed = storeFails,
                            !.before = index]
            /\ UNCHANGED <<ingestReady, retrievalReady, firstVars>>
    /\ UNCHANGED auxVars

\* clear_all_documents that deletes the chunks of the first listed file only
ClearFirstFileOnly(store) ==
    IF store = <<>> THEN store
    ELSE SelectSeq(store, LAMBDA e : e.file_name # store[1].file_name)

\* what self.vector_store.delete(ids=results['ids']) leaves of the store
ClearedStore(store) == SelectSeq(store, LAMBDA e : FALSE)

\* clear_all_documents() -> bool (second definition)
ClearAllDocuments ==
    /\ last = Idle
    /\ \E storeFails \in BOOLEAN :
        LET ok == ingestReady /\ ~storeFails
        IN  /\ index' = IF ok THEN ClearedStore(index) ELSE index
            /\ known' = IF ok THEN {} ELSE known
            /\ cleared' = IF ok THEN cleared \cup known ELSE cleared
            /\ live' = IF ok THEN [n \in Names |-> 0] ELSE live
            /\ last' = [Call("clear", IF ok THEN "true" ELSE "false") EXCEPT
                            !.failed = storeFails, !.before = index]
            /\ UNCHANGED <<ingestReady, retrievalReady, removed, firstVars>>
    /\ UNCHANGED auxVars

\* ------------------------------------------------------- DocumentRetrieval
\* similarity_search_with_score(query, k): the (chunk, distance) pairs the
\* store can return for some query: min(k, n) distinct stored chunks, each
\* with the distance the embedding gives it.
InjectiveSeqs(n, m) ==
    {p \in [1..m -> 1..n] : \A i, j \in 1..m : i # j => p[i] # p[j]}

SearchHits(store, k) ==
    LET m == Min(k, Len(store))
    IN  {[i \in 1..m |-> [doc |-> store[p[i]], distance |-> d[i]]] :
            p \in InjectiveSeqs(Len(store), m), d \in [1..m -> Distances]}

\* similarity_score = max(0.0, 1.0 - score)
SimilarityScore(distance) == Max(0, One - distance)

RetrievalResult(doc, score) ==
    [content_len |-> doc.content_len,
     file_hash |-> doc.file_hash,
     score |-> score,
     file_name |-> doc.file_name,
     chunk_id |-> doc.chunk_id]

\* the loop of retrieve_relevant_docs: score each hit, keep those that
\* reach the threshold, in the order the store returned them
RECURSIVE ScoreAndFilter(_, _)
ScoreAndFilter(hits, score_threshold) ==
    IF hits = <<>> THEN <<>>
    ELSE LET h == Head(hits)
             similarity_score == SimilarityScore(h.distance)
             rest == ScoreAndFilter(Tail(hits), score_threshold)
         IN  IF similarity_score >= score_threshold
                THEN <<RetrievalResult(h.doc, similarity_score)>> \o rest
                ELSE rest

\* x placed after every element of the sorted list whose score is not lower
InsertByScore(sorted, x) ==
    LET p == Cardinality({i \in 1..Len(sorted) : sorted[i].score >= x.score})
    IN  SubSeq(sorted, 1, p) \o <<x>> \o SubSeq(sorted, p + 1, Len(sorted))

\* the sort without reverse=True: lowest score first
RECURSIVE SortAscending(_)
SortAscending(results) ==
    IF Len(results) <= 1 THEN results
    ELSE LET x == results[Len(results)]
             sorted == SortAscending(SubSeq(results, 1, Len(results) - 1))
             p == Cardinality({i \in 1..Len(sorted) :
                                 sorted[i].score <= x.score})
         IN  SubSeq(sorted, 1, p) \o <<x>> \o SubSeq(sorted, p + 1, Len(sorted))

\* an ascending sort followed by reverse(): entries of equal score end up in
\* the opposite of the order the store returned them
SortThenReverse(results) ==
    LET asc == SortAscending(results)
    IN  [i \in 1..Len(asc) |-> asc[Len(asc) + 1 - i]]

\* results.sort(key=lambda x: x.score, reverse=True): a stable sort
RECURSIVE SortByScore(_)
SortByScore(results) ==
    IF Len(results) <= 1 THEN results
    ELSE InsertByScore(SortByScore(SubSeq(results, 1, Len(results) - 1)),
                       results[Len(results)])

\* retrieve_relevant_docs without the is_available() check
RetrieveUnguarded(hits, searchFails, score_threshold) ==
    IF searchFails THEN <<>>
    ELSE SortByScore(ScoreAndFilter(hits, score_threshold))

\* retrieve_relevant_docs(query, k, score_threshold) given what the search
\* returns, or that it raises
RetrieveRelevantDocs(hits, searchFails, score_threshold) ==
    IF ~retrievalReady THEN <<>>
    ELSE IF searchFails THEN <<>>
    ELSE SortByScore(ScoreAndFilter(hits, score_threshold))

RetrieveRelevant ==
    /\ last = Idle
    /\ \E k \in 1..MaxK, score_threshold \in Thresholds, searchFails \in BOOLEAN :
        \E hits \in IF searchFails THEN {<<>>} ELSE SearchHits(index, k) :
            /\ last' = [Call("retrieve", "returned") EXCEPT
                            !.failed = searchFails,
                            !.before = index,
                            !.hits = hits,
                            !.score_threshold = score_threshold,
                            !.results = RetrieveRelevantDocs(hits, searchFails,
                                                             score_threshold)]
            /\ UNCHANGED <<index, ingestReady, retrievalReady, known, removed, live, cleared,
                       firstVars>>
    /\ UNCHANGED auxVars

\* x placed after every element of the sorted list whose chunk_id is not higher
InsertByChunkId(sorted, x) ==
    LET p == Cardinality({i \in 1..Len(sorted) :
                            sorted[i].chunk_id <= x.chunk_id})
    IN  SubSeq(sorted, 1, p) \o <<x>> \o SubSeq(sorted, p + 1, Len(sorted))

\* results.sort(key=lambda x: x.chunk_id): a stable ascending sort
RECURSIVE SortByChunkId(_)
SortByChunkId(results) ==
    IF Len(results) <= 1 THEN results
    ELSE InsertByChunkId(SortByChunkId(SubSeq(results, 1, Len(results) - 1)),
                         results[Len(results)])

\* retrieve_by_file(file_name, limit): the first `limit` chunks of the file
\* in the order the store lists them, then sorted by chunk_id
RetrieveByFileDocs(store, storeFails, file_name, limit) ==
    IF ~retrievalReady THEN <<>>
    ELSE IF storeFails THEN <<>>
    ELSE LET mine == SelectSeq(store, LAMBDA e : e.file_name = file_name)
             taken == SubSeq(mine, 1, Min(limit, Len(mine)))
         IN  SortByChunkId([i \in 1..Len(taken) |->
                                RetrievalResult(taken[i], One)])

\* self.vector_store.get(): the stored chunks, in the order the store lists
\* them, which the store does not promise to be the order of insertion
Listings(store) ==
    {[i \in 1..Len(store) |-> store[p[i]]] :
        p \in InjectiveSeqs(Len(store), Len(store))}

RetrieveByFile ==
    /\ last = Idle
    /\ \E file_name \in Names, limit \in 1..MaxK, storeFails \in BOOLEAN,
          all_docs \in Listings(index) :
        /\ last' = [Call("by_file", "returned") EXCEPT
                        !.name = file_name,
                        !.failed = storeFails,
                        !.before = index,
                        !.limit = limit,
                        !.results = RetrieveByFileDocs(all_docs, storeFails,
                                                       file_name, limit)]
        /\ UNCHANGED <<index, ingestReady, retrievalReady, known, removed, live, cleared,
                       firstVars>>
    /\ UNCHANGED auxVars

\* len(f"{score:.2f}")
ScoreStrLen(score) == Digits(score \div One) + Len(".00")

\* len(chunk_text) of one formatted chunk in get_context_for_query
FormattedLen(doc) ==
    Len("## From ") + Len(doc.file_name) + Len(" (chunk ")
        + Digits(doc.chunk_id + 1) + Len(")\n")
        + Len("Relevance: ") + ScoreStrLen(doc.score) + Len("\n\n")
        + doc.content_len + Len("\n\n")

\* the packing loop with continue in place of break: a chunk that does not
\* fit is passed over and later, smaller chunks are still included
RECURSIVE PackSkipping(_, _, _)
PackSkipping(docs, total_length, max_tokens) ==
    IF docs = <<>> THEN <<>>
    ELSE LET chunk_tokens == FormattedLen(Head(docs)) \div CharsPerToken
         IN  IF total_length + chunk_tokens > max_tokens
                THEN PackSkipping(Tail(docs), total_length, max_tokens)
             ELSE <<Head(docs)>> \o
                  PackSkipping(Tail(docs), total_length + chunk_tokens, max_tokens)

\* the packing loop of get_context_for_query: context_parts
RECURSIVE PackChunks(_, _, _)
PackChunks(docs, total_length, max_tokens) ==
    IF docs = <<>> THEN <<>>
    ELSE LET chunk_tokens == FormattedLen(Head(docs)) \div CharsPerToken
         IN  IF total_length + chunk_tokens > max_tokens THEN <<>>
             ELSE <<Head(docs)>> \o
                  PackChunks(Tail(docs), total_length + chunk_tokens, max_tokens)

\* get_context_for_query that joins whatever was packed, even nothing
ContextForUnchecked(relevant_docs, max_tokens) ==
    [fixed |-> "", parts |-> PackChunks(relevant_docs, 0, max_tokens)]

\* get_context_for_query given the documents retrieve_relevant_docs returned
ContextFor(relevant_docs, max_tokens) ==
    IF relevant_docs = <<>> THEN [fixed |-> Sentinel, parts |-> <<>>]
    ELSE LET context_parts == PackChunks(relevant_docs, 0, max_tokens)
         IN  IF context_parts # <<>>
                THEN [fixed |-> "", parts |-> context_parts]
                ELSE [fixed |-> Sentinel, parts |-> <<>>]

\* len() of the string get_context_for_query returns
ContextLen(context) ==
    IF context.parts = <<>> THEN Len(context.fixed)
    ELSE Len("## Relevant Context\n\n")
            + SumSeq([i \in 1..Len(context.parts) |->
                        FormattedLen(context.parts[i])])
            + Len("\n---\n*Retrieved ") + Digits(Len(context.parts))
            + Len(" relevant document chunks*")

EstimatedTokens(context) == ContextLen(context) \div CharsPerToken

GetContextForQuery ==
    /\ last = Idle
    /\ \E max_tokens \in TokenBudgets, searchFails \in BOOLEAN :
        \E hits \in IF searchFails THEN {<<>>} ELSE SearchHits(index, ContextK) :
            LET relevant_docs == RetrieveRelevantDocs(hits, searchFails, 0)
            IN  /\ last' = [Call("context", "returned") EXCEPT
                                !.failed = searchFails,
                                !.before = index,
                                !.max_tokens = max_tokens,
                                !.results = relevant_docs,
                                !.context = ContextFor(relevant_docs, max_tokens)]
                /\ UNCHANGED <<index, ingestReady, retrievalReady, known,
                               removed, live, cleared, firstVars>>
    /\ UNCHANGED auxVars

\* the file names of the stored chunks
FileNames(store) == {store[i].file_name : i \in 1..Len(store)}

\* the chunks of the store that carry the file name
ChunksOfName(store, file_name) ==
    {i \in 1..Len(store) : store[i].file_name = file_name}

\* files_info that sets chunk_count to 1 for every chunk instead of adding 1
FilesInfoNotCounting(store) ==
    {[name |-> n, chunk_count |-> 1] : n \in FileNames(store)}

\* files_info of get_statistics: per file name, the number of its chunks
FilesInfo(store) ==
    {[name |-> n, chunk_count |-> Cardinality(ChunksOfName(store, n))] :
        n \in FileNames(store)}

\* get_statistics(): {"error": ...} when the store is unavailable or raises
GetStatisticsOutcome(store, storeFails) ==
    IF ~retrievalReady \/ storeFails THEN [status |-> "error", stats |-> NoStats]
    ELSE [status |-> "returned",
          stats |-> [total_chunks |-> Len(store),
                     total_files |-> Cardinality(FilesInfo(store)),
                     files |-> FilesInfo(store)]]

GetStatistics ==
    /\ last = Idle
    /\ \E storeFails \in BOOLEAN :
        LET out == GetStatisticsOutcome(index, storeFails)
        IN  last' = [Call("stats", out.status) EXCEPT
                        !.failed = storeFails,
                        !.before = index,
                        !.stats = out.stats]
    /\ UNCHANGED <<index, ingestReady, retrievalReady, known, removed, live, cleared,
                   firstVars>>
    /\ UNCHANGED auxVars

\* get_document_list(): per file name, its chunk count and the file_hash of
\* the first of its chunks; [] when there is no store or the store raises
DocumentList(store, storeFails) ==
    IF ~ingestReady \/ storeFails THEN {}
    ELSE {[file_name |-> n,
           chunk_count |-> Cardinality(ChunksOfName(store, n)),
           file_hash |-> store[CHOOSE i \in ChunksOfName(store, n) :
                                 \A j \in ChunksOfName(store, n) : i <= j].file_hash] :
            n \in FileNames(store)}

GetDocumentList ==
    /\ last = Idle
    /\ \E storeFails \in BOOLEAN :
        last' = [Call("list", "returned") EXCEPT
                    !.failed = storeFails,
                    !.before = index,
                    !.documents = DocumentList(index, storeFails)]
    /\ UNCHANGED <<index, ingestReady, retrievalReady, known, removed, live, cleared,
                   firstVars>>
    /\ UNCHANGED auxVars

\* ------------------------------------------------ ui.process_uploaded_files
\* the loop over the uploaded files goes on to the next file whatever the
\* call for this one returned or raised
AbortOnError(pending, status) ==
    IF status \in {"error", "caught"} THEN 0 ELSE pending - 1

\* the files still to process after one iteration of the loop
StillPending(pending, status) == pending - 1

\* what one iteration of the loop sees of ingest_document: its result, or
\* an exception that the except of the loop catches
SeenByLoop(status) == IF status = "raised" THEN "caught" ELSE status

\* what the loop tells the user about the file: st.error when the call
\* raised, else the confirmation message, whatever status was returned
ReportedByLoop(status) == IF status = "caught" THEN "st.error" ELSE "confirmation"

ProcessUploadedFilesBegin ==
    /\ last = Idle
    /\ \E n \in 1..MaxBatch :
        last' = [Call("batch", "running") EXCEPT
                    !.size = n, !.pending = n, !.before = index]
    /\ UNCHANGED <<index, ingestReady, retrievalReady, known, removed, live, cleared,
                   firstVars>>
    /\ UNCHANGED auxVars

\* one iteration: ingest_document(tmp_file_path, uploaded_file.name)
ProcessUploadedFile ==
    /\ last.op = "batch"
    /\ last.pending > 0
    /\ \E name \in Names, text \in Texts, kind \in Kinds, addFails \in BOOLEAN :
        LET out == IngestOutcome(kind, text, addFails)
            docs == ChunkText(text, name)
            status == SeenByLoop(out.status)
            pending == StillPending(last.pending, status)
        IN  /\ out.add => Len(index) + Len(docs) <= MaxIndex
            /\ index' = IF out.add THEN index \o docs ELSE index
            /\ known' = IF out.add THEN known \cup {FileHash(text)} ELSE known
            /\ removed' = IF out.add THEN removed \ {name} ELSE removed
            /\ live' = IF out.add THEN [live EXCEPT ![name] = @ + Len(docs)]
                       ELSE live
            /\ cleared' = IF out.add THEN {} ELSE cleared
            /\ last' = [last EXCEPT
                    !.pending = pending,
                    !.status = IF pending = 0 THEN "returned" ELSE "running",
                    !.batch = Append(@,
                        [failing |-> kind # "ok" \/ NumChunks(text) = 0
                                        \/ addFails,
                         status |-> status,
                         reported |-> ReportedByLoop(status),
                         added |-> IF out.add THEN Len(docs) ELSE 0])]
    /\ UNCHANGED <<ingestReady, retrievalReady, firstVars>>
    /\ UNCHANGED auxVars

\* the caller takes the result; the next call starts from the stored state
Return ==
    /\ last # Idle
    /\ last.pending = 0
    /\ last' = Idle
    /\ UNCHANGED <<index, ingestReady, retrievalReady, known, removed, live, cleared,
                       firstVars>>
    /\ UNCHANGED auxVars

Next ==
    \/ IngestDocument
    \/ IngestText
    \/ DeleteDocument
    \/ ClearAllDocuments
    \/ RetrieveRelevant
    \/ RetrieveByFile
    \/ GetContextForQuery
    \/ GetStatistics
    \/ GetDocumentList
    \/ ProcessUploadedFilesBegin
    \/ ProcessUploadedFile
    \/ Return

Spec == Init /\ [][Next]_vars

\* ------------------------------------------- DocumentIngestion (1st def.)
\* The first definition of the class (lines 144-391), read with the first
\* DocumentParser (lines 41-142): the ledger-keeping pipeline.  The second
\* definitions of both classes replace them when the module is loaded.
\* ingest_document is split at its calls into the vector store and the
\* ledger file, so that two callers can interleave and the process can stop
\* between them.  Chroma stores what add_documents gives it at once.
FirstKinds == {"ok", "missing", "unreadable"}

\* the document names given to the first definition
FirstNames == {"a.txt"}

\* the Documents ingest_document builds from the chunks of a text
FirstDocuments(text, document_name) ==
    [i \in 1..NumChunks(text) |->
        [source |-> document_name,
         chunk_id |-> i - 1,
         total_chunks |-> NumChunks(text),
         file_hash |-> FileHash(text),
         content_len |-> ChunkLen(text, i - 1)]]

\* self.metadata[file_hash] = {...}
LedgerRecord(ledger, h, document_name, chunk_count) ==
    [x \in DOMAIN ledger \cup {h} |->
        IF x = h THEN [document_name |-> document_name,
                       chunk_count |-> chunk_count]
        ELSE ledger[x]]

\* del self.metadata[file_hash]
LedgerRemove(ledger, h) == [x \in DOMAIN ledger \ {h} |-> ledger[x]]

\* file_hash in self.metadata
IsKnown(ledger, h) == h \in DOMAIN ledger

\* lines 241-271: existence, hash, the check against the ledger, parsing
\* and splitting; what the call does next
FirstBeginOutcome(ledger, kind, text) ==
    IF kind = "missing" THEN "error"
    ELSE IF IsKnown(ledger, FileHash(text)) THEN "skipped"
    ELSE IF kind = "unreadable" THEN "error"
    ELSE IF NumChunks(text) = 0 THEN "error"
    ELSE "add"

FirstIngestBegin(t) ==
    /\ threads[t].pc = "idle"
    /\ disturbed' = (disturbed \/ \E u \in Threads : threads[u].pc # "idle")
    /\ \E name \in FirstNames, text \in Texts, kind \in FirstKinds :
        LET out == FirstBeginOutcome(metadata, kind, text)
            me == [ThreadIdle("none", name, text) EXCEPT
                    !.hadChunks = Cardinality({i \in 1..Len(index) :
                                    index[i].file_hash = FileHash(text)}),
                    !.hadRecord = IsKnown(metadata, FileHash(text))]
        IN  threads' = [threads EXCEPT ![t] =
                IF out = "add" THEN [me EXCEPT !.pc = "add"]
                ELSE ThreadReturned(me, out)]
    /\ UNCHANGED <<index, ingestReady, retrievalReady, known, removed, live, cleared, last,
                   metadata, metaFile>>
    /\ UNCHANGED otherVars

\* lines 290-292: self.vector_store.add_documents(documents)
FirstIngestAdd(t) ==
    /\ threads[t].pc = "add"
    /\ \E addFails \in BOOLEAN :
        LET me == threads[t]
            documents == FirstDocuments(me.text, me.name)
        IN  /\ IF addFails
               THEN /\ threads' = [threads EXCEPT ![t] = ThreadReturned(me, "error")]
                    /\ UNCHANGED index
               ELSE /\ Len(index) + Len(documents) <= MaxIndex
                    /\ index' = index \o documents
                    /\ threads' = [threads EXCEPT ![t].pc = "record"]
            /\ disturbed' = (disturbed \/ addFails)
    /\ UNCHANGED <<ingestReady, retrievalReady, known, removed, live, cleared, last,
                   metadata, metaFile>>
    /\ UNCHANGED otherVars

\* lines 294-302: self.metadata[file_hash] = {...}
FirstIngestRecord(t) ==
    /\ threads[t].pc = "record"
    /\ metadata' = LedgerRecord(metadata, FileHash(threads[t].text),
                                threads[t].name, NumChunks(threads[t].text))
    /\ UNCHANGED disturbed
    /\ threads' = [threads EXCEPT ![t].pc = "save"]
    /\ UNCHANGED <<index, ingestReady, retrievalReady, known, removed, live, cleared, last,
                   metaFile>>
    /\ UNCHANGED otherVars

\* _save_metadata: the whole ledger is written over the file; a failure is
\* logged and swallowed.  open(..., 'w') empties the file before json.dump
\* writes, and _load_metadata reads a file it cannot parse as {}.
SavedFile(ledger, file, how) ==
    IF how = "written" THEN ledger
    ELSE IF how = "open_fails" THEN file
    ELSE EmptyLedger

SaveOutcomes == {"written", "open_fails", "dump_fails"}

\* line 304: self._save_metadata()
FirstIngestSave(t) ==
    /\ threads[t].pc = "save"
    /\ \E how \in SaveOutcomes :
        /\ metaFile' = SavedFile(metadata, metaFile, how)
        /\ disturbed' = (disturbed \/ how # "written")
    /\ threads' = [threads EXCEPT ![t].pc = "persist"]
    /\ UNCHANGED <<index, ingestReady, retrievalReady, known, removed, live, cleared, last,
                   metadata>>
    /\ UNCHANGED otherVars

\* lines 306-325: self.vector_store.persist(), then the result; an exception
\* of persist() is caught by the except of ingest_document
FirstIngestPersist(t) ==
    /\ threads[t].pc = "persist"
    /\ \E persistFails \in BOOLEAN :
        /\ threads' = [threads EXCEPT ![t] =
            ThreadReturned(threads[t], IF persistFails THEN "error" ELSE "success")]
        /\ disturbed' = (disturbed \/ persistFails)
    /\ UNCHANGED <<index, ingestReady, retrievalReady, known, removed, live, cleared, last,
                   metadata, metaFile>>
    /\ UNCHANGED otherVars

\* remove_document(file_hash): the ledger record goes, the chunks stay
FirstRemoveDocument ==
    /\ \E h \in DOMAIN metadata, how \in SaveOutcomes :
        /\ metadata' = LedgerRemove(metadata, h)
        /\ metaFile' = SavedFile(metadata', metaFile, how)
        /\ disturbed' = (disturbed \/ how # "written")
    /\ UNCHANGED <<index, ingestReady, retrievalReady, known, removed, live, cleared, last,
                   threads>>
    /\ UNCHANGED otherVars

\* clear_all_documents (first definition): the store directory, which holds
\* the ledger file too, is removed and made anew; then the ledger is reset
FirstClearAllDocuments ==
    /\ \E stage \in {"done", "rmtree_fails", "init_fails"}, how \in SaveOutcomes :
        /\ IF stage = "rmtree_fails" THEN UNCHANGED <<index, metadata, metaFile>>
           ELSE IF stage = "init_fails"
               THEN /\ index' = <<>>
                    /\ metaFile' = EmptyLedger
                    /\ UNCHANGED metadata
           ELSE /\ index' = <<>>
                /\ metadata' = EmptyLedger
                /\ metaFile' = SavedFile(EmptyLedger, EmptyLedger, how)
        /\ disturbed' = (disturbed \/ stage # "done" \/ how # "written")
    /\ UNCHANGED <<ingestReady, retrievalReady, known, removed, live, cleared, last, threads>>
    /\ UNCHANGED otherVars

\* the process stops and is started again: __init__ loads the ledger from
\* the file; a call that was under way has returned nothing
FirstCrash ==
    /\ \E t \in Threads : threads[t].pc # "idle"
    /\ metadata' = metaFile
    /\ disturbed' = TRUE
    /\ threads' = [t \in Threads |->
            IF threads[t].pc = "idle" THEN ThreadIdle("none", "", 0)
            ELSE ThreadIdle("interrupted", threads[t].name, threads[t].text)]
    /\ UNCHANGED <<index, ingestReady, retrievalReady, known, removed, live, cleared, last,
                   metaFile>>
    /\ UNCHANGED otherVars

FirstInit ==
    /\ index = <<>>
    /\ ingestReady = TRUE
    /\ retrievalReady = TRUE
    /\ known = {}
    /\ removed = {}
    /\ live = [n \in Names |-> 0]
    /\ cleared = {}
    /\ last = Idle
    /\ metadata = EmptyLedger
    /\ metaFile = EmptyLedger
    /\ threads = [t \in Threads |-> ThreadIdle("none", "", 0)]
    /\ AuxInit

FirstNext ==
    \/ \E t \in Threads : FirstIngestBegin(t)
    \/ \E t \in Threads : FirstIngestAdd(t)
    \/ \E t \in Threads : FirstIngestRecord(t)
    \/ \E t \in Threads : FirstIngestSave(t)
    \/ \E t \in Threads : FirstIngestPersist(t)
    \/ FirstRemoveDocument
    \/ FirstClearAllDocuments
    \/ FirstCrash

SpecFirst == FirstInit /\ [][FirstNext]_vars

\* ----------------------------------------------------- security.RateLimiter
\* self.limits
Limits ==
    "chat" :> [count |-> ChatCount, window |-> Window]
    @@ "upload" :> [count |-> UploadCount, window |-> Window]
    @@ "api" :> [count |-> ApiCount, window |-> Window]

\* the actions is_allowed is asked about; "export" has no limit
RateActions == DOMAIN Limits \cup {"export"}

\* the identifiers is_allowed is asked about for an action
RateIdentifiers(action) ==
    IF action = "upload" THEN {"u1", "u2"} ELSE {"u1"}

\* how far the clock moves between two calls
TimeSteps == {Window - 1, Window}

\* key = f"{action}:{identifier}"
RateKey(action, identifier) == action \o ":" \o identifier

\* self.requests[key], [] when the key is new
RequestsOf(requests, key) ==
    IF key \in DOMAIN requests THEN requests[key] ELSE <<>>

\* the requests of the list that are younger than the window
KeepRecent(times, current_time, window) ==
    SelectSeq(times, LAMBDA req_time : current_time - req_time < window)

\* the limit check that lets a request through when the quota is just full
AtOrUnderLimit(recorded, count) == recorded <= count

\* len(self.requests[key]) < limit_config['count']
UnderLimit(recorded, count) == recorded < count

\* is_allowed(action, identifier)
IsAllowed ==
    /\ \E action \in RateActions :
        \E identifier \in RateIdentifiers(action) :
            \* one limited action per run
            /\ \A a \in DOMAIN Limits \ {action} :
                    \A i \in RateIdentifiers(a) :
                        RateKey(a, i) \notin DOMAIN rlRequests
            /\ IF action \notin DOMAIN Limits
               THEN /\ rlLast' = [action |-> action, identifier |-> identifier,
                                  allowed |-> TRUE, before |-> 0]
                    /\ UNCHANGED <<rlRequests, rlAllowed>>
               ELSE LET limit_config == Limits[action]
                        key == RateKey(action, identifier)
                        pair == <<action, identifier>>
                        kept == KeepRecent(RequestsOf(rlRequests, key), rlNow,
                                           limit_config.window)
                        ok == UnderLimit(Len(kept), limit_config.count)
                        was == IF pair \in DOMAIN rlAllowed
                               THEN rlAllowed[pair] ELSE <<>>
                    IN  /\ rlRequests' =
                            [k \in DOMAIN rlRequests \cup {key} |->
                                IF k = key
                                THEN IF ok THEN Append(kept, rlNow) ELSE kept
                                ELSE rlRequests[k]]
                        /\ rlAllowed' =
                            [q \in DOMAIN rlAllowed \cup {pair} |->
                                IF q = pair
                                THEN IF ok THEN Append(was, rlNow) ELSE was
                                ELSE rlAllowed[q]]
                        /\ rlLast' = [action |-> action,
                                      identifier |-> identifier,
                                      allowed |-> ok, before |-> Len(was)]
    /\ UNCHANGED <<rlNow, exceptRate>>

\* time passes between two calls
RateTick ==
    /\ \E d \in TimeSteps :
        /\ rlNow + d <= MaxTime
        /\ rlNow' = rlNow + d
    /\ rlAllowed' = [q \in DOMAIN rlAllowed |->
                        SelectSeq(rlAllowed[q], LAMBDA t : rlNow' - t < Window)]
    /\ UNCHANGED <<rlRequests, rlLast, exceptRate>>

RateNext ==
    \/ IsAllowed
    \/ RateTick

SpecRate == FirstInit /\ [][RateNext]_vars

\* ------------------------------------------------------------ code_execution
\* SecurityValidator.DANGEROUS_IMPORTS
DANGEROUS_IMPORTS ==
    {"os", "subprocess", "sys", "eval", "exec", "compile",
     "open", "__import__", "importlib", "socket", "urllib",
     "requests", "http", "ftplib", "smtplib", "telnetlib",
     "webbrowser", "ctypes", "multiprocessing", "threading",
     "asyncio", "concurrent", "shutil", "tempfile", "pickle"}

\* the modules the submitted code imports
Modules == DANGEROUS_IMPORTS \cup {"math", "json"}

\* the forms of the import statement:
\*   plain       import m           aliased      import m as x
\*   dotted      import m.sub       from         from m import y
\*   from_dotted from m.sub import y
ImportForms == {"plain", "aliased", "dotted", "from", "from_dotted"}

\* a statement of the submitted code
Statements ==
    {[stmt |-> "print"]}
    \cup {[stmt |-> "import", form |-> f, module |-> m] :
            f \in ImportForms, m \in Modules}

\* the submitted code: an optional print, then an optional second statement
Codes ==
    {<<>>}
    \cup {<<st>> : st \in Statements}
    \cup {<<[stmt |-> "print"], st>> : st \in Statements}

\* alias.name of an ast.Import node, node.module of an ast.ImportFrom node
ImportedName(st) ==
    IF st.form \in {"dotted", "from_dotted"} THEN st.module \o ".sub"
    ELSE st.module

\* 'import os' in code or 'from os' in code
MentionsOs(st) == st.stmt = "import" /\ st.module = "os"

\* the warnings the walk over the AST appends for one statement
AstWarnings(st) ==
    IF st.stmt = "import" /\ ImportedName(st) \in DANGEROUS_IMPORTS
    THEN <<[kind |-> "Dangerous import detected", name |-> ImportedName(st)]>>
    ELSE <<>>

RECURSIVE WalkWarnings(_)
WalkWarnings(code) ==
    IF code = <<>> THEN <<>>
    ELSE AstWarnings(Head(code)) \o WalkWarnings(Tail(code))

\* the string-based check for the os module
OsWarnings(code) ==
    IF \E i \in 1..Len(code) : MentionsOs(code[i])
    THEN <<[kind |-> "OS module usage detected", name |-> ""]>>
    ELSE <<>>

\* any(danger in w.lower() for danger in ['import', 'infinite', 'dangerous'])
IsCritical(w) == w.kind = "Dangerous import detected"

\* validate_code(code) -> (is_safe, warnings)
ValidateCodeResult(code) ==
    LET warnings == WalkWarnings(code) \o OsWarnings(code)
    IN  [is_safe |-> \A i \in 1..Len(warnings) : ~IsCritical(warnings[i]),
         warnings |-> warnings]

ValidateCode ==
    /\ \E code \in Codes :
        LET v == ValidateCodeResult(code)
        IN  exLast' = [NoCodeCall EXCEPT !.op = "validate", !.code = code,
                            !.is_safe = v.is_safe, !.warnings = v.warnings]
    /\ UNCHANGED exceptCode

\* exec(code, safe_globals): the statements run in order; the restricted
\* __builtins__ have no __import__, so an import statement raises ImportError
RECURSIVE ExecStatements(_)
ExecStatements(code) ==
    IF code = <<>> THEN [raised |-> FALSE, output |-> <<>>]
    ELSE IF Head(code).stmt = "import" THEN [raised |-> TRUE, output |-> <<>>]
    ELSE LET rest == ExecStatements(Tail(code))
         IN  [raised |-> rest.raised, output |-> <<"print">> \o rest.output]

\* SafeExecutor.execute_code(code); signal.signal raises ValueError outside
\* the main thread, before exec is reached
ExecuteCodeResult(code, inMainThread) ==
    LET v == ValidateCodeResult(code)
        ran == ExecStatements(code)
    IN  IF ~v.is_safe
        THEN [NoCodeCall EXCEPT !.op = "execute", !.code = code,
                    !.warnings = v.warnings,
                    !.error = "Code rejected due to security concerns"]
        ELSE IF ~inMainThread
        THEN [NoCodeCall EXCEPT !.op = "execute", !.code = code,
                    !.is_safe = TRUE, !.warnings = v.warnings,
                    !.error = "Execution error"]
        ELSE [NoCodeCall EXCEPT !.op = "execute", !.code = code,
                    !.is_safe = TRUE, !.warnings = v.warnings,
                    !.executed = TRUE,
                    !.success = ~ran.raised,
                    !.error = IF ran.raised THEN "Execution error" ELSE "",
                    !.output = ran.output]

ExecuteCode ==
    /\ \E code \in Codes, inMainThread \in BOOLEAN :
        exLast' = ExecuteCodeResult(code, inMainThread)
    /\ UNCHANGED exceptCode

CodeNext ==
    \/ ValidateCode
    \/ ExecuteCode

SpecCode == FirstInit /\ [][CodeNext]_vars

\* ------------------------------------------------------- ui: session migration
SessionKeys == {"session1", "session2"}

SessionFields == {"id", "title", "messages", "created_at"}

\* a stored session value: an old-format string, a dict holding the fields of
\* has, or a value of another type; a field a dict lacks is left blank
BlankSession ==
    [type |-> "other", has |-> {}, id |-> "", title |-> "",
     messages |-> <<>>, created_at |-> 0]

SessionDict(has, id, title, messages, created_at) ==
    [type |-> "dict", has |-> has,
     id |-> IF "id" \in has THEN id ELSE "",
     title |-> IF "title" \in has THEN title ELSE "",
     messages |-> IF "messages" \in has THEN messages ELSE <<>>,
     created_at |-> IF "created_at" \in has THEN created_at ELSE 0]

SessionValues ==
    {BlankSession, [BlankSession EXCEPT !.type = "str"]}
    \cup {SessionDict(has, id, "Test Session", messages, 0) :
            has \in SUBSET SessionFields,
            id \in {"session1", "elsewhere"},
            messages \in {<<>>, <<"Hello">>}}

\* the mappings load_chat_sessions reads from the sessions file
SessionMappings ==
    UNION {[keys -> SessionValues] : keys \in SUBSET SessionKeys}

\* a migration that writes the fields whether or not the dict has them
SetAlways(session, field, value) ==
    [session EXCEPT ![field] = value, !.has = @ \cup {field}]

\* session.setdefault(field, value)
SetDefault(session, field, value) ==
    IF field \in session.has THEN session
    ELSE [session EXCEPT ![field] = value, !.has = @ \cup {field}]

\* the entry migrated[key] of a string or dict value
MigratedSession(key, session, now) ==
    IF session.type = "str"
    THEN SessionDict(SessionFields, key, "Migrated Session", <<>>, now)
    ELSE SetDefault(SetDefault(SetDefault(SetDefault(session,
            "id", key), "title", "Chat Session"), "messages", <<>>),
            "created_at", now)

\* migrate_session_data(sessions) at clock reading now
MigrateSessionDataResult(sessions, now) ==
    [key \in {k \in DOMAIN sessions : sessions[k].type \in {"str", "dict"}} |->
        MigratedSession(key, sessions[key], now)]

\* the first load of a run reads the sessions file as it was left
MigrateSessionData ==
    /\ ~migLast.called
    /\ \E sessions \in SessionMappings :
        migLast' = [called |-> TRUE, again |-> FALSE, sessions |-> sessions,
                    migrated |-> MigrateSessionDataResult(sessions, migNow)]
    /\ UNCHANGED <<migNow, exceptMigrate>>

\* load_chat_sessions migrates what an earlier migration returned
MigrateAgain ==
    /\ migLast.called
    /\ migLast' = [called |-> TRUE, again |-> TRUE,
                    sessions |-> migLast.migrated,
                    migrated |-> MigrateSessionDataResult(migLast.migrated, migNow)]
    /\ UNCHANGED <<migNow, exceptMigrate>>

MigrateTick ==
    /\ migNow < MaxNow
    /\ migNow' = migNow + 1
    /\ UNCHANGED <<migLast, exceptMigrate>>

MigrateNext ==
    \/ MigrateSessionData
    \/ MigrateAgain
    \/ MigrateTick

SpecMigrate == FirstInit /\ [][MigrateNext]_vars

\* ----------------------------------------------------------- SessionManager
\* str(uuid.uuid4()): a key no session has yet
SessionIds == {"sid1", "sid2"}

\* duration_hours of create_session and hours of extend_session
Durations == {1, 2}

DataKeys == {"k"}

DataValues == {1, 2}

\* an expiry check that forgets is_active
ExpiredOnly(session, current_time) == session.expires_at <= current_time

\* not session.is_active or session.expires_at <= current_time
NotValid(session, current_time) ==
    ~session.is_active \/ session.expires_at <= current_time

\* self.sessions after end_session(session_id)
EndedSessions(sessions, session_id) ==
    IF session_id \in DOMAIN sessions
    THEN [sessions EXCEPT ![session_id].is_active = FALSE]
    ELSE sessions

\* get_session(session_id): TRUE when it returns the session; an expired or
\* inactive session is ended on the way
GetSessionFinds(session_id) ==
    /\ session_id \in DOMAIN smSessions
    /\ ~NotValid(smSessions[session_id], smNow)

AfterGetSession(session_id) ==
    IF session_id \in DOMAIN smSessions /\ ~GetSessionFinds(session_id)
    THEN [sessions |-> EndedSessions(smSessions, session_id),
          active |-> smActive \ {session_id}]
    ELSE [sessions |-> smSessions, active |-> smActive]

\* the sessions whose expires_at has passed at current_time
Lapsed(sessions, current_time) ==
    {sid \in DOMAIN sessions : sessions[sid].expires_at <= current_time}

SessionCall(op, session_id, result) ==
    [op |-> op, session_id |-> session_id, result |-> result,
     wasDead |-> session_id \in smDead,
     before |-> IF session_id \in DOMAIN smSessions
                THEN smSessions[session_id] ELSE NoSession]

CreateSession ==
    /\ \E session_id \in SessionIds \ DOMAIN smSessions, duration_hours \in Durations :
        /\ smSessions' = [sid \in DOMAIN smSessions \cup {session_id} |->
                IF sid = session_id
                THEN [is_active |-> TRUE, expires_at |-> smNow + duration_hours,
                      data |-> [k \in {} |-> 0]]
                ELSE smSessions[sid]]
        /\ smActive' = smActive \cup {session_id}
        /\ smLast' = SessionCall("create_session", session_id, session_id)
    /\ UNCHANGED <<smNow, smDead, exceptSession>>

GetSession ==
    /\ \E session_id \in SessionIds :
        LET after == AfterGetSession(session_id)
        IN  /\ smSessions' = after.sessions
            /\ smActive' = after.active
            /\ smLast' = SessionCall("get_session", session_id,
                    IF GetSessionFinds(session_id) THEN "session" ELSE "None")
    /\ UNCHANGED <<smNow, smDead, exceptSession>>

ExtendSession ==
    /\ \E session_id \in SessionIds, hours \in Durations :
        LET after == AfterGetSession(session_id)
        IN  IF GetSessionFinds(session_id)
            THEN /\ smSessions' = [smSessions EXCEPT
                        ![session_id].expires_at = smNow + hours]
                 /\ smActive' = smActive
                 /\ smLast' = SessionCall("extend_session", session_id, "True")
            ELSE /\ smSessions' = after.sessions
                 /\ smActive' = after.active
                 /\ smLast' = SessionCall("extend_session", session_id, "False")
    /\ UNCHANGED <<smNow, smDead, exceptSession>>

EndSession ==
    /\ \E session_id \in SessionIds :
        IF session_id \in DOMAIN smSessions
        THEN /\ smSessions' = EndedSessions(smSessions, session_id)
             /\ smActive' = smActive \ {session_id}
             /\ smDead' = smDead \cup {session_id}
             /\ smLast' = SessionCall("end_session", session_id, "True")
        ELSE /\ smLast' = SessionCall("end_session", session_id, "False")
             /\ UNCHANGED <<smSessions, smActive, smDead>>
    /\ UNCHANGED <<smNow, exceptSession>>

\* cleanup_expired_sessions: end_session for every expired or inactive one
CleanupExpiredSessions ==
    /\ LET expired_sessions ==
            {sid \in DOMAIN smSessions : NotValid(smSessions[sid], smNow)}
       IN  /\ smSessions' = [sid \in DOMAIN smSessions |->
                    IF sid \in expired_sessions
                    THEN [smSessions[sid] EXCEPT !.is_active = FALSE]
                    ELSE smSessions[sid]]
           /\ smActive' = smActive \ expired_sessions
           /\ smDead' = smDead \cup expired_sessions
           /\ smLast' = SessionCall("cleanup_expired_sessions", "", "count")
    /\ UNCHANGED <<smNow, exceptSession>>

GetSessionData ==
    /\ \E session_id \in SessionIds, key \in DataKeys \cup {""} :
        LET after == AfterGetSession(session_id)
        IN  /\ smSessions' = after.sessions
            /\ smActive' = after.active
            /\ smLast' = SessionCall("get_session_data", session_id,
                    IF ~GetSessionFinds(session_id) THEN "None"
                    ELSE IF key = "" THEN "data"
                    ELSE IF key \in DOMAIN smSessions[session_id].data THEN "value"
                    ELSE "None")
    /\ UNCHANGED <<smNow, smDead, exceptSession>>

SetSessionData ==
    /\ \E session_id \in SessionIds, key \in DataKeys, value \in DataValues :
        LET after == AfterGetSession(session_id)
        IN  IF GetSessionFinds(session_id)
            THEN /\ smSessions' = [smSessions EXCEPT ![session_id].data =
                        [k \in DOMAIN @ \cup {key} |->
                            IF k = key THEN value ELSE @[k]]]
                 /\ smActive' = smActive
                 /\ smLast' = SessionCall("set_session_data", session_id, "True")
            ELSE /\ smSessions' = after.sessions
                 /\ smActive' = after.active
                 /\ smLast' = SessionCall("set_session_data", session_id, "False")
    /\ UNCHANGED <<smNow, smDead, exceptSession>>

\* an hour passes; the sessions whose expires_at is reached have expired
SessionTick ==
    /\ smNow < MaxHour
    /\ smNow' = smNow + 1
    /\ smDead' = smDead \cup Lapsed(smSessions, smNow')
    /\ UNCHANGED <<smSessions, smActive, smLast, exceptSession>>

SessionNext ==
    \/ CreateSession
    \/ GetSession
    \/ ExtendSession
    \/ EndSession
    \/ CleanupExpiredSessions
    \/ GetSessionData
    \/ SetSessionData
    \/ SessionTick

SpecSession == FirstInit /\ [][SessionNext]_vars

\* ----------------------------------------------------------------- RAGAgent
\* str(uuid.uuid4()) of create_new_session
ChatSessionIds == {"chat1", "chat2"}

UserInputs == {"hello", "again"}

\* what self.current_model.generate_response does: a reply, an empty
\* response, or an exception
Generations == {"reply", "empty", "raises"}

ChatMessage(role, content) == [role |-> role, content |-> content]

\* current_session.messages.append(user_msg), before the model is asked
AppendUserMessage(messages, user_msg) == Append(messages, user_msg)

\* self.chat_sessions with a new, empty session
WithNewSession(sessions, session_id) ==
    [sid \in DOMAIN sessions \cup {session_id} |->
        IF sid = session_id THEN <<>> ELSE sessions[sid]]

\* chat(user_input): the messages of the current session afterwards and the
\* kind of string returned
ChatOutcome(messages, user_input, generation) ==
    LET user_msg == ChatMessage("user", user_input)
        asked == AppendUserMessage(messages, user_msg)
    IN  IF generation = "raises"
            THEN [messages |-> asked, returned |-> "Error generating response"]
        ELSE IF generation = "empty"
            THEN [messages |-> asked, returned |-> "Sorry"]
        ELSE [messages |-> Append(asked, ChatMessage("assistant", "reply")),
              returned |-> "reply"]

Chat ==
    /\ \E user_input \in UserInputs, generation \in Generations,
          new_id \in ChatSessionIds :
        IF ~current_model
        THEN /\ chatLast' = [op |-> "chat", user_input |-> user_input,
                              outcome |-> "no_model",
                              returned |-> "No AI model selected",
                              before |-> chat_sessions]
             /\ UNCHANGED <<chat_sessions, current_session_id>>
        ELSE LET session_id == IF current_session_id = "" THEN new_id
                               ELSE current_session_id
                 sessions == IF current_session_id = ""
                             THEN WithNewSession(chat_sessions, new_id)
                             ELSE chat_sessions
                 out == ChatOutcome(sessions[session_id], user_input, generation)
             IN  /\ current_session_id = "" => new_id \notin DOMAIN chat_sessions
                 /\ Len(sessions[session_id]) + 2 <= MaxMessages
                 /\ chat_sessions' = [sessions EXCEPT ![session_id] = out.messages]
                 /\ current_session_id' = session_id
                 /\ chatLast' = [op |-> "chat", user_input |-> user_input,
                                  outcome |-> generation,
                                  returned |-> out.returned,
                                  before |-> chat_sessions]
    /\ UNCHANGED <<current_model, exceptChat>>

\* switch_model(model_key): the model becomes available or not
SwitchModel ==
    /\ \E available \in BOOLEAN :
        /\ current_model' = (current_model \/ available)
        /\ chatLast' = [NoChatCall EXCEPT !.op = "switch_model",
                            !.returned = IF available THEN "True" ELSE "False",
                            !.before = chat_sessions]
    /\ UNCHANGED <<chat_sessions, current_session_id, exceptChat>>

CreateNewSession ==
    /\ \E session_id \in ChatSessionIds \ DOMAIN chat_sessions :
        /\ chat_sessions' = WithNewSession(chat_sessions, session_id)
        /\ current_session_id' = session_id
        /\ chatLast' = [NoChatCall EXCEPT !.op = "create_new_session",
                            !.returned = session_id, !.before = chat_sessions]
    /\ UNCHANGED <<current_model, exceptChat>>

SwitchSession ==
    /\ \E session_id \in ChatSessionIds :
        /\ current_session_id' = IF session_id \in DOMAIN chat_sessions
                                  THEN session_id ELSE current_session_id
        /\ chatLast' = [NoChatCall EXCEPT !.op = "switch_session",
                            !.returned = IF session_id \in DOMAIN chat_sessions
                                         THEN "True" ELSE "False",
                            !.before = chat_sessions]
    /\ UNCHANGED <<current_model, chat_sessions, exceptChat>>

ChatNext ==
    \/ Chat
    \/ SwitchModel
    \/ CreateNewSession
    \/ SwitchSession

SpecChat == FirstInit /\ [][ChatNext]_vars

\* ------------------------------------------------- performance: cache_result
\* what the wrapped function returns
ReturnValues == {"None", "v1", "v2"}

\* the time that passes between two steps
CacheSteps == {CacheTtl \div 2, CacheTtl \div 2 + 1}

\* SimpleCache.get(key) at current_time: the value, "None" on a miss or for
\* an expired item
CacheGet(store, key, current_time) ==
    IF key \in DOMAIN store /\ ~(current_time > store[key].expires)
    THEN store[key].value
    ELSE "None"

\* self.cache after get: an expired item is deleted
AfterCacheGet(store, key, current_time) ==
    IF key \in DOMAIN store /\ current_time > store[key].expires
    THEN [k \in DOMAIN store \ {key} |-> store[k]]
    ELSE store

\* self.cache after set(key, value, ttl)
AfterCacheSet(store, key, value, current_time) ==
    [k \in DOMAIN store \cup {key} |->
        IF k = key THEN [value |-> value, expires |-> current_time + CacheTtl]
        ELSE store[k]]

\* the value of the earliest execution for the key within the TTL
OwedValue(runs, current_time) ==
    LET recent == {i \in 1..Len(runs) : runs[i].at + CacheTtl >= current_time}
    IN  IF recent = {} THEN "none"
        ELSE runs[CHOOSE i \in recent : \A j \in recent : i <= j].value

WrapperReturned(key, result, runs) ==
    [pc |-> "idle", key |-> key, result |-> result,
     owed |-> OwedValue(runs, cacheNow)]

\* wrapper: the cache key, cache.get and the test `is not None`
WrapperLookup(t) ==
    /\ cacheThreads[t].pc = "idle"
    /\ cacheCalls < MaxCalls
    /\ cacheCalls' = cacheCalls + 1
    /\ \E key \in CacheKeys :
        LET cached_result == CacheGet(cacheStore, key, cacheNow)
        IN  /\ cacheStore' = AfterCacheGet(cacheStore, key, cacheNow)
            /\ cacheThreads' = [cacheThreads EXCEPT ![t] =
                    IF cached_result # "None"
                    THEN WrapperReturned(key, cached_result, cacheRuns[key])
                    ELSE [pc |-> "func", key |-> key, result |-> "none",
                          owed |-> "none"]]
    /\ UNCHANGED <<cacheNow, cacheRuns, exceptCache>>

\* wrapper: result = func(*args, **kwargs)
WrapperFunc(t) ==
    /\ cacheThreads[t].pc = "func"
    /\ \E result \in ReturnValues :
        cacheThreads' = [cacheThreads EXCEPT ![t].pc = "set",
                                             ![t].result = result]
    /\ UNCHANGED <<cacheNow, cacheStore, cacheRuns, cacheCalls, exceptCache>>

\* wrapper: cache.set(cache_key, result, ttl); return result.  The
\* execution is complete, and its TTL runs from here.
WrapperSet(t) ==
    /\ cacheThreads[t].pc = "set"
    /\ LET me == cacheThreads[t]
       IN  /\ cacheStore' = AfterCacheSet(cacheStore, me.key, me.result, cacheNow)
           /\ cacheRuns' = [cacheRuns EXCEPT ![me.key] =
                    Append(@, [at |-> cacheNow, value |-> me.result])]
           /\ cacheThreads' = [cacheThreads EXCEPT ![t] =
                    WrapperReturned(me.key, me.result, cacheRuns'[me.key])]
    /\ UNCHANGED <<cacheNow, cacheCalls, exceptCache>>

CacheTick ==
    /\ \E step \in CacheSteps :
        /\ cacheNow + step <= MaxCacheTime
        /\ cacheNow' = cacheNow + step
    /\ UNCHANGED <<cacheStore, cacheThreads, cacheRuns, cacheCalls, exceptCache>>

CacheNext ==
    \/ \E t \in Threads : WrapperLookup(t)
    \/ \E t \in Threads : WrapperFunc(t)
    \/ \E t \in Threads : WrapperSet(t)
    \/ CacheTick

SpecCache == FirstInit /\ [][CacheNext]_vars

\* ------------------------------------------------------------------ claims
ChunksOfHash(store, h) == {i \in 1..Len(store) : store[i].file_hash = h}

NamesIn(results) == {results[i].file_name : i \in 1..Len(results)}

\* C1: a second ingest_document of bytes already ingested (nothing removed
\* or cleared in between) returns 'skipped' and leaves the number of chunks
\* in the vector store as it was.
C1_IdempotentReingest ==
    (last.op = "ingest" /\ last.kind = "ok" /\ last.wasKnown
        /\ last.status # "error")
    => (last.status = "skipped" /\ Len(index) = Len(last.before))

C3_BudgetRespect ==
    (last.op = "context" /\ last.context.parts # <<>>)
    => EstimatedTokens(last.context) <= last.max_tokens

\* C4: every result of retrieve_relevant_docs has its score in [0, 1] and
\* the results are in non-increasing order of score.
C4_ScoreBoundsAndOrder ==
    last.op \in {"retrieve", "context"}
    => /\ \A i \in 1..Len(last.results) :
            last.results[i].score >= 0 /\ last.results[i].score <= One
       /\ \A i, j \in 1..Len(last.results) :
            i < j => last.results[i].score >= last.results[j].score

C4_Witness ==
    /\ last.op = "retrieve"
    /\ Len(last.results) >= 2
    /\ last.results[1].score > last.results[2].score
    /\ last.results[2].score = 0

\* C5: two concurrent ingest_document calls for the same content hash are
\* serialized: never have both added the document's chunks to the store.
C5_SameHashSerialized ==
    \A t1, t2 \in Threads :
        (t1 # t2 /\ threads[t1].text = threads[t2].text)
        => ~(threads[t1].pc \in {"record", "save", "persist"}
             /\ threads[t2].pc \in {"record", "save", "persist"})

\* C6: after ingest_document was interrupted, the persisted state holds
\* chunks of the document exactly if the ledger file records its hash.
C6_NoPartialVisibility ==
    \A t \in Threads :
        threads[t].result = "interrupted"
        => LET h == FileHash(threads[t].text)
           IN  (ChunksOfHash(index, h) # {}) <=> IsKnown(metaFile, h)

\* C7: ingest_document of bytes whose hash is already known invokes neither
\* the parser, the text splitter nor the vector store, whatever the name.
C7_HashCheckFirst ==
    (last.op = "ingest" /\ last.wasKnown) => last.calls = {}

C9_EmptyIndexSentinel ==
    /\ (last.op = "retrieve" /\ index = <<>>) => last.results = <<>>
    /\ (last.op = "context" /\ last.results = <<>>)
        => (last.context.parts = <<>> /\ last.context.fixed = Sentinel
            /\ ContextLen(last.context) > 0 /\ last.status = "returned")

C9_Witness ==
    /\ last.op = "context"
    /\ retrievalReady /\ ~last.failed
    /\ index = <<>>
    /\ last.context.fixed = Sentinel

\* C10: with the retrieval system unavailable, or the store call raising,
\* retrieve_relevant_docs and retrieve_by_file return the empty list, raise
\* nothing and leave the vector store as it was.
C10_RetrievalDegrades ==
    (last.op \in {"retrieve", "by_file"} /\ (~retrievalReady \/ last.failed))
    => (last.results = <<>> /\ last.status = "returned" /\ index = last.before)

C10_Witness ==
    /\ last.op = "retrieve"
    /\ ~retrievalReady
    /\ index # <<>>
    /\ last.results = <<>>

\* C11: retrieve_relevant_docs scores each hit max(0, 1 - d), returns exactly
\* the hits whose score reaches score_threshold, in descending order of
\* score, hits of equal score in the order the store returned them.
C11_ThresholdAndStableRanking ==
    (last.op = "retrieve" /\ retrievalReady /\ ~last.failed)
    => LET hits == last.hits
           score(i) == IF One - hits[i].distance > 0
                       THEN One - hits[i].distance ELSE 0
           kept == {i \in 1..Len(hits) : score(i) >= last.score_threshold}
           \* the rank of hit i among the kept hits
           rank(i) == Cardinality({j \in kept :
                         \/ score(j) > score(i)
                         \/ score(j) = score(i) /\ j <= i})
       IN  /\ Len(last.results) = Cardinality(kept)
           /\ \A i \in kept :
                 LET r == last.results[rank(i)]
                 IN  /\ r.score = score(i)
                     /\ r.file_name = hits[i].doc.file_name
                     /\ r.chunk_id = hits[i].doc.chunk_id
                     /\ r.file_hash = hits[i].doc.file_hash
                     /\ r.content_len = hits[i].doc.content_len

C11_Witness ==
    /\ last.op = "retrieve"
    /\ Len(last.results) = 2
    /\ last.results[1].score = last.results[2].score
    /\ last.results[1].chunk_id > last.results[2].chunk_id
    /\ last.score_threshold > 0

\* the running estimate after the first n results: the sum of their
\* len(chunk_text) // 4
TokensOfFirst(results, n) ==
    SumSeq([i \in 1..n |-> FormattedLen(results[i]) \div CharsPerToken])

\* C12: get_context_for_query includes a prefix of the ranked results, each
\* chunk whole: the included chunks fit max_tokens by the running estimate,
\* the first chunk left out would not have fitted, and none after it is
\* included.
C12_GreedyPrefixPacking ==
    last.op = "context"
    => LET n == Len(last.context.parts)
       IN  /\ n <= Len(last.results)
           /\ last.context.parts = SubSeq(last.results, 1, n)
           /\ TokensOfFirst(last.results, n) <= last.max_tokens
           /\ n < Len(last.results)
                => TokensOfFirst(last.results, n + 1) > last.max_tokens
           /\ n > 0 => ContextLen(last.context)
                            >= SumSeq([i \in 1..n |-> last.results[i].content_len])

C12_Witness ==
    /\ last.op = "context"
    /\ Len(last.context.parts) >= 1
    /\ Len(last.context.parts) < Len(last.results)

\* the names with chunks ingested and not deleted since
LiveNames == {n \in Names : live[n] > 0}

\* the chunks ingested under the names of S and not deleted since
RECURSIVE LiveChunks(_)
LiveChunks(S) ==
    IF S = {} THEN 0
    ELSE LET n == CHOOSE x \in S : TRUE
         IN  live[n] + LiveChunks(S \ {n})

DocumentsIn(store) ==
    {<<store[i].file_name, store[i].file_hash>> : i \in 1..Len(store)}

\* C14: in every state of the store, the chunks of each document carry the
\* chunk_ids 0..total_chunks-1, each exactly once, and one total_chunks.
C14_DenseChunkIds ==
    \A d \in DocumentsIn(index) :
        LET mine == {i \in 1..Len(index) :
                        <<index[i].file_name, index[i].file_hash>> = d}
        IN  \E total \in 1..MaxIndex :
                /\ \A i \in mine : index[i].total_chunks = total
                /\ \A c \in 0..(total - 1) :
                      Cardinality({i \in mine : index[i].chunk_id = c}) = 1
                /\ \A i \in mine : index[i].chunk_id \in 0..(total - 1)

\* C15: a file over 50 MB or of an unsupported type is rejected with status
\* 'error' before any parser reads it, and the store is unchanged.
C15_FailFast ==
    (last.op = "ingest" /\ last.kind \in {"too_large", "unsupported"})
    => (last.status = "error" /\ last.calls = {} /\ index = last.before)

\* C15 as the code has it: the rejection comes before any parser reads the
\* file and leaves the store unchanged; it is a result with status 'error'
\* when the vector store is initialised, and a RuntimeError when it is not.
C15_FailFastWhenReady ==
    (last.op = "ingest" /\ last.kind \in {"too_large", "unsupported"})
    => /\ last.calls = {}
       /\ index = last.before
       /\ last.status = IF ingestReady THEN "error" ELSE "raised"

C15_Witness ==
    /\ last.op = "ingest"
    /\ last.kind = "too_large"
    /\ last.status = "error"
    /\ index # <<>>

C17_SequentialPreview ==
    (last.op = "by_file" /\ retrievalReady /\ ~last.failed)
    => LET n == Cardinality(ChunksOfName(index, last.name))
           m == IF last.limit <= n THEN last.limit ELSE n
       IN  /\ Len(last.results) = m
           /\ \A i \in 1..m :
                 /\ last.results[i].file_name = last.name
                 /\ last.results[i].chunk_id = i - 1

\* C18: after clear_all_documents has returned True the store holds no
\* chunk; on the empty store the statistics report 0 files and 0 chunks, the
\* document list is empty and every retrieval returns the empty list; and
\* ingesting bytes that were ingested before the clear returns 'success'.
C18_ClearAllResets ==
    /\ (last.op = "clear" /\ last.status = "true")
        => (index = <<>> /\ LiveNames = {})
    /\ (last.op = "stats" /\ last.status = "returned" /\ LiveNames = {})
        => last.stats = NoStats
    /\ (last.op = "list" /\ LiveNames = {}) => last.documents = {}
    /\ (last.op \in {"retrieve", "by_file", "context"} /\ LiveNames = {})
        => last.results = <<>>
    /\ (last.op = "ingest" /\ last.wasCleared /\ last.kind = "ok"
            /\ ~last.failed)
        => (last.status = "success" /\ Len(index) > Len(last.before))

C18_Witness ==
    /\ last.op = "ingest"
    /\ last.wasCleared
    /\ last.status = "success"
    /\ Len(last.before) = 0

\* C22: for each limited action and identifier, is_allowed returns True and
\* records the request exactly while fewer than the action's count of
\* allowed requests lie within the window, so never more than count are
\* allowed per key within a window; a call for one key leaves the requests
\* recorded for every other key as they were; an action without a limit is
\* always allowed.
C22_RateLimit ==
    /\ \A q \in DOMAIN rlAllowed : Len(rlAllowed[q]) <= Limits[q[1]].count
    /\ \A a \in DOMAIN Limits : \A i \in RateIdentifiers(a) :
            LET recorded == RequestsOf(rlRequests, RateKey(a, i))
                allowed == IF <<a, i>> \in DOMAIN rlAllowed
                           THEN rlAllowed[<<a, i>>] ELSE <<>>
            IN  SelectSeq(recorded, LAMBDA t : rlNow - t < Window) = allowed
    /\ rlLast.action \in DOMAIN Limits
        => (rlLast.allowed <=> rlLast.before < Limits[rlLast.action].count)
    /\ (rlLast.action # "" /\ rlLast.action \notin DOMAIN Limits)
        => rlLast.allowed

C22_Witness ==
    /\ rlLast.action = "upload"
    /\ rlLast.identifier = "u1"
    /\ ~rlLast.allowed
    /\ rlNow > 0
    /\ <<"upload", "u2">> \in DOMAIN rlAllowed
    /\ Len(rlAllowed[<<"upload", "u2">>]) \in 1..(UploadCount - 1)

C24_SessionMigration ==
    migLast.called =>
        LET sessions == migLast.sessions
            migrated == migLast.migrated
        IN  /\ DOMAIN migrated =
                 {k \in DOMAIN sessions : sessions[k].type \in {"str", "dict"}}
            /\ \A k \in DOMAIN migrated :
                 /\ migrated[k].type = "dict"
                 /\ sessions[k].type = "str" =>
                       /\ migrated[k].has = SessionFields
                       /\ migrated[k].id = k
                       /\ migrated[k].title = "Migrated Session"
                       /\ migrated[k].messages = <<>>
                 /\ (sessions[k].type = "dict" /\ sessions[k].has = SessionFields)
                       => migrated[k] = sessions[k]
            /\ migLast.again => migrated = sessions

\* a mapping holding a string, migrated at one time and again at a later one
C24_Witness ==
    /\ migLast.again
    /\ \E k \in DOMAIN migLast.migrated :
         /\ migLast.migrated[k].title = "Migrated Session"
         /\ migLast.migrated[k].created_at < migNow
    /\ \E k \in DOMAIN migLast.migrated :
         /\ migLast.migrated[k].title = "Test Session"
         /\ migLast.migrated[k].id # k

\* C25: whenever ingest_document returns status 'error', whatever step
\* failed, the vector index holds no chunk of that document and the ledger no
\* record for its hash that were not there before the call (stated of a call
\* during which no other ingest_document call was made).
C25_FailedIngestChangesNothing ==
    [][\A t \in Threads :
        (/\ threads'[t] # threads[t]
         /\ threads'[t].pc = "idle"
         /\ threads'[t].result = "error"
         /\ \A u \in Threads \ {t} : threads[u] = ThreadIdle("none", "", 0))
        => LET h == FileHash(threads'[t].text)
           IN  IF threads[t].pc = "idle"
               THEN index' = index /\ metadata' = metadata
               ELSE /\ Cardinality(ChunksOfHash(index', h)) <= threads[t].hadChunks
                    /\ IsKnown(metadata', h) => threads[t].hadRecord]_vars

\* the index holds chunks of hash h exactly when the ledger has a record for
\* h, and as many as the record's chunk_count
LedgerAgrees ==
    \A h \in Texts :
        /\ ChunksOfHash(index, h) # {} <=> IsKnown(metadata, h)
        /\ IsKnown(metadata, h) =>
              Cardinality(ChunksOfHash(index, h)) = metadata[h].chunk_count

\* C26: after any crash-free sequence of ingest_document, remove_document
\* and clear_all_documents the index holds chunks of hash h if and only if
\* the ledger has a record for h, as many as its chunk_count; removing a
\* document and ingesting it again leaves one copy of its chunks.
C26_LedgerAndIndexAgree ==
    (~disturbed /\ \A t \in Threads : threads[t].pc = "idle") => LedgerAgrees

\* C27: get_context_for_query returns the sentinel only when retrieval
\* returned no chunk; whenever at least one chunk was retrieved, the context
\* contains at least the top-ranked chunk.
C27_SentinelMeansNothingRelevant ==
    last.op = "context"
    => /\ last.context.fixed = Sentinel => last.results = <<>>
       /\ last.results # <<>>
            => /\ last.context.parts # <<>>
               /\ last.context.parts[1] = last.results[1]

\* C28: once end_session(sid) has returned True, or the session's expires_at
\* has passed, no later get_session, extend_session, set_session_data,
\* get_session_data or cleanup_expired_sessions makes get_session(sid) return
\* the session again; extend_session and set_session_data return False for
\* it and leave its expires_at and data unchanged.
C28_EndedStaysEnded ==
    /\ \A sid \in smDead : ~GetSessionFinds(sid)
    /\ smLast.wasDead =>
          /\ smLast.op = "get_session" => smLast.result = "None"
          /\ smLast.op = "get_session_data" => smLast.result = "None"
          /\ smLast.op \in {"extend_session", "set_session_data"}
                => smLast.result = "False"
          /\ smSessions[smLast.session_id].expires_at = smLast.before.expires_at
          /\ smSessions[smLast.session_id].data = smLast.before.data

\* extend_session refused for a session that was ended by end_session while
\* its expires_at still lay ahead and it held data
C28_Witness ==
    /\ smLast.op = "extend_session"
    /\ smLast.wasDead
    /\ smLast.before.expires_at > smNow
    /\ smLast.before.data # NoSession.data
    /\ smLast.result = "False"

\* the messages a session held before the last call
MessagesBefore(session_id) ==
    IF session_id \in DOMAIN chatLast.before THEN chatLast.before[session_id]
    ELSE <<>>

\* C29: chat either appends the user message followed by the assistant
\* reply to the current session, or (no model selected, generation raises,
\* empty response) leaves the session's message list as it was before.
C29_ChatAllOrNothing ==
    chatLast.op = "chat" =>
        IF chatLast.returned = "reply"
        THEN chat_sessions[current_session_id] =
                MessagesBefore(current_session_id)
                    \o <<ChatMessage("user", chatLast.user_input),
                         ChatMessage("assistant", "reply")>>
        ELSE \A sid \in DOMAIN chat_sessions :
                chat_sessions[sid] = MessagesBefore(sid)

\* C30: among the calls of a function wrapped by cache_result with the same
\* cache key made within the TTL, sequential or concurrent and for any
\* return value including None, the function body executes at most once and
\* every call returns the value of that one execution.
C30_CachedRunsOncePerKey ==
    /\ \A key \in CacheKeys :
         \A i, j \in 1..Len(cacheRuns[key]) :
            i < j => cacheRuns[key][j].at > cacheRuns[key][i].at + CacheTtl
    /\ \A t \in Threads :
         (cacheThreads[t].pc = "idle" /\ cacheThreads[t].key # "")
            => cacheThreads[t].result = cacheThreads[t].owed
=============================================================================
